---------------------------- MODULE Spec2Model ----------------------------
(***************************************************************************)
(* MiniAgent (src/agent.py): the ReAct loop of MiniAgent.run, the response *)
(* parser (_check_final_answer, _parse_action), the dispatcher             *)
(* (_execute_tool) and the built-in tool table (src/basic_tools.py).       *)
(*                                                                         *)
(* Text.  A Python str is modelled as a sequence of tokens; the str is the *)
(* concatenation of its tokens.  A token is a fixed literal: a protocol    *)
(* marker ("Final Answer:", "Action:", "Action Input:", "Thought:"), one   *)
(* whitespace character, a word of \w characters, a run of digits, one     *)
(* JSON punctuation character, or a whole double-quoted string literal.    *)
(* The regular expressions of the source are evaluated on the token        *)
(* sequence exactly as `re` evaluates them on the concatenation, for texts *)
(* that are WellTokenised (no marker is spelled by adjacent tokens and a   *)
(* word token is never directly followed by another word character).       *)
(*                                                                         *)
(* Specifications.  Spec follows one run of one instance step by step.     *)
(* SpecRuns lets run be called again on the same instance.  SpecInstances  *)
(* has two instances and the list objects their self.tools refer to.       *)
(* SpecDescribe applies register_tool and get_tool_description (src/tools  *)
(* and miniagent/tools) to a callable.                                     *)
(***************************************************************************)
EXTENDS Integers, Sequences, FiniteSets, TLC

\* ------------------------------------------------------------------ bounds

\* Largest value of max_iterations the agent is constructed with.
MaxIter == 3

\* Largest number of tools load_builtin_tool registers before run.
MaxTools == 2

\* Largest number of parameters of a callable given to get_tool_description.
MaxParams == 2

\* ------------------------------------------------------------------ tokens

Min(S) == CHOOSE m \in S : \A n \in S : m <= n

Max(S) == CHOOSE m \in S : \A n \in S : m >= n

\* Characters matched by \s and removed by strip(); "    " is one level of
\* docstring indentation.
Whitespace == {" ", "\n", "    "}

\* re.IGNORECASE: both spellings of a marker match the pattern.
FinalMarkers == {"Final Answer:", "final answer:"}

ActionMarkers == {"Action:", "action:"}

InputMarkers == {"Action Input:", "action input:"}

ThoughtMarkers == {"Thought:", "thought:"}

\* Tokens made of letters and underscores only (matched whole by \w+).
WordTokens == {"calculator", "get_current_time", "nope", "banana", "hello", "done"}

\* Tokens made of digits only (matched whole by \d+ and by \w+).
DigitTokens == {"4", "2", "007"}

\* Double-quoted string literals; none contains a quote, brace or bracket.
StringTokens == {"\"expression\"", "\"2+2\"", "\"a\"", "\"C:\\path\""}

\* A run of "[" characters longer than the interpreter's recursion limit
\* (sys.getrecursionlimit(), 1000 by default).
DeepBrackets == "[[[[[[[[[[ ... [ (1100 times)"

\* Free text that is no marker but contains the phrase "final answer".
PhraseTokens == {"my final answer is"}

\* The text between the quotes of a string literal: str.strip('"') of the
\* literal, and for a valid literal also its JSON decoding.
Unquote(tok) ==
    CASE tok = "\"expression\"" -> "expression"
      [] tok = "\"2+2\"" -> "2+2"
      [] tok = "\"a\"" -> "a"
      [] tok = "\"C:\\path\"" -> "C:\\path"
      [] OTHER -> tok

\* String literals json accepts: "\p" is an invalid escape.
ValidStrings == StringTokens \ {"\"C:\\path\""}

\* Digit runs json accepts as a whole number: no leading zero.
ValidNumbers == DigitTokens \ {"007"}

\* The longest prefix of a token that \w+ matches ("" when the token does
\* not start with a word character).
LeadingWord(tok) ==
    CASE tok \in WordTokens \cup DigitTokens -> tok
      [] tok = "Final Answer:" -> "Final"
      [] tok = "final answer:" -> "final"
      [] tok = "Action:" -> "Action"
      [] tok = "action:" -> "action"
      [] tok = "Action Input:" -> "Action"
      [] tok = "action input:" -> "action"
      [] tok = "Thought:" -> "Thought"
      [] tok = "thought:" -> "thought"
      [] tok = "my final answer is" -> "my"
      [] OTHER -> ""

\* str.lower() of the token contains "final answer".
LowerHasFinalAnswer(tok) == tok \in FinalMarkers \cup PhraseTokens

\* str.strip(): leading and trailing whitespace removed.
Strip(s) ==
    LET keep == {i \in 1..Len(s) : s[i] \notin Whitespace}
    IN  IF keep = {} THEN <<>> ELSE SubSeq(s, Min(keep), Max(keep))

\* The position \s* reaches when started at i.
SkipWs(s, i) ==
    LET stop == {j \in i..Len(s) : s[j] \notin Whitespace}
    IN  IF stop = {} THEN Len(s) + 1 ELSE Min(stop)

\* Optional[...]: None, or a value.
None == [some |-> FALSE, val |-> <<>>]

Some(v) == [some |-> TRUE, val |-> v]

\* ------------------------------------------------------------- json.loads

\* Python values produced by json.loads and by the fallback of _parse_action:
\* a dict (v: function from key to value), a list (v: sequence of values),
\* a str or an int (v: its text).
PyDict(f) == [t |-> "dict", v |-> f]

PyList(s) == [t |-> "list", v |-> s]

PyStr(text) == [t |-> "str", v |-> text]

PyInt(text) == [t |-> "int", v |-> text]

\* Result of decoding one JSON value: ok, the value and the position after
\* it, or the exception raised: json.JSONDecodeError for malformed text,
\* RecursionError for arrays nested deeper than the recursion limit.
JFail == [ok |-> FALSE, err |-> "JSONDecodeError", val |-> PyStr(<<>>), next |-> 0]

JDeep == [ok |-> FALSE, err |-> "RecursionError", val |-> PyStr(<<>>), next |-> 0]

JOk(val, next) == [ok |-> TRUE, err |-> "", val |-> val, next |-> next]

RECURSIVE JValue(_, _), JMembers(_, _, _), JElements(_, _, _)

\* The JSON value that starts at token i of s.
JValue(s, i) ==
    IF i > Len(s) THEN JFail
    ELSE CASE s[i] = "{" ->
                LET p == SkipWs(s, i + 1)
                IN  IF p <= Len(s) /\ s[p] = "}"
                    THEN JOk(PyDict(<<>>), p + 1)
                    ELSE JMembers(s, p, <<>>)
           [] s[i] = "[" ->
                LET p == SkipWs(s, i + 1)
                IN  IF p <= Len(s) /\ s[p] = "]"
                    THEN JOk(PyList(<<>>), p + 1)
                    ELSE JElements(s, p, <<>>)
           [] s[i] = DeepBrackets -> JDeep
           [] s[i] \in ValidStrings -> JOk(PyStr(<<Unquote(s[i])>>), i + 1)
           [] s[i] \in ValidNumbers -> JOk(PyInt(<<s[i]>>), i + 1)
           [] OTHER -> JFail

\* The members of an object from the key at token i on; acc holds the pairs
\* decoded so far (a repeated key keeps its last value, as dict does).
JMembers(s, i, acc) ==
    IF i > Len(s) \/ s[i] \notin ValidStrings THEN JFail
    ELSE LET c == SkipWs(s, i + 1)
         IN  IF c > Len(s) \/ s[c] # ":" THEN JFail
             ELSE LET r == JValue(s, SkipWs(s, c + 1))
                  IN  IF ~r.ok THEN r
                      ELSE LET n == SkipWs(s, r.next)
                               acc2 == (Unquote(s[i]) :> r.val) @@ acc
                           IN  IF n > Len(s) THEN JFail
                               ELSE IF s[n] = "}" THEN JOk(PyDict(acc2), n + 1)
                               ELSE IF s[n] = "," THEN JMembers(s, SkipWs(s, n + 1), acc2)
                               ELSE JFail

\* The elements of an array from the value at token i on.
JElements(s, i, acc) ==
    LET r == JValue(s, i)
    IN  IF ~r.ok THEN r
        ELSE LET n == SkipWs(s, r.next)
                 acc2 == Append(acc, r.val)
             IN  IF n > Len(s) THEN JFail
                 ELSE IF s[n] = "]" THEN JOk(PyList(acc2), n + 1)
                 ELSE IF s[n] = "," THEN JElements(s, SkipWs(s, n + 1), acc2)
                 ELSE JFail

\* json.loads(s): the decoded value, or the exception raised
\* (JSONDecodeError also for extra data after the value).
json_loads(s) ==
    LET r == JValue(s, SkipWs(s, 1))
    IN  IF ~r.ok THEN r
        ELSE IF SkipWs(s, r.next) = Len(s) + 1 THEN r
        ELSE JFail

\* str.strip('"') of a captured Action Input: a capture is one string
\* literal, one digit run, or starts and ends with a brace or bracket.
StripQuotes(s) ==
    IF Len(s) = 1 /\ s[1] \in StringTokens THEN <<Unquote(s[1])>> ELSE s

\* ---------------------------------------------------------- response parser

\* _check_final_answer without the strip().
_check_final_answer_NoStrip(text) ==
    LET hits == {i \in 1..Len(text) : text[i] \in FinalMarkers}
    IN  IF hits = {} THEN None
        ELSE Some(SubSeq(text, Min(hits) + 1, Len(text)))

\* re.search(r'Final Answer:\s*(.*)', text, IGNORECASE | DOTALL), group 1
\* stripped: the text after the first marker, or None without a marker.
_check_final_answer(text) ==
    LET hits == {i \in 1..Len(text) : text[i] \in FinalMarkers}
    IN  IF hits = {} THEN None
        ELSE Some(Strip(SubSeq(text, Min(hits) + 1, Len(text))))

\* re.search(r'Action:\s*(\w+)', text, IGNORECASE): the word after the first
\* marker that is followed (after whitespace) by a word character.
ActionMatch(text) ==
    LET hits == {i \in 1..Len(text) :
                    /\ text[i] \in ActionMarkers
                    /\ SkipWs(text, i + 1) <= Len(text)
                    /\ LeadingWord(text[SkipWs(text, i + 1)]) # ""}
    IN  IF hits = {} THEN None
        ELSE Some(LeadingWord(text[SkipWs(text, Min(hits) + 1)]))

\* The alternation (\{.*?\}|\[.*?\]|".*?"|\d+) tried at token p: a brace or
\* bracket up to the FIRST closing one, one string literal, or one digit run.
InputCapture(text, p) ==
    IF p > Len(text) THEN None
    ELSE CASE text[p] = "{" ->
                LET close == {j \in (p + 1)..Len(text) : text[j] = "}"}
                IN  IF close = {} THEN None ELSE Some(SubSeq(text, p, Min(close)))
           [] text[p] \in {"[", DeepBrackets} ->
                LET close == {j \in (p + 1)..Len(text) : text[j] = "]"}
                IN  IF close = {} THEN None ELSE Some(SubSeq(text, p, Min(close)))
           [] text[p] \in StringTokens -> Some(<<text[p]>>)
           [] text[p] \in DigitTokens -> Some(<<text[p]>>)
           [] OTHER -> None

\* re.search(r'Action Input:\s*(...)', text, IGNORECASE | DOTALL): the
\* capture at the first marker where the alternation matches.
ActionInputMatch(text) ==
    LET hits == {i \in 1..Len(text) :
                    /\ text[i] \in InputMarkers
                    /\ InputCapture(text, SkipWs(text, i + 1)).some}
    IN  IF hits = {} THEN None
        ELSE InputCapture(text, SkipWs(text, Min(hits) + 1))

\* re.search(r'Thought:\s*(.*?)(?=\nAction:|$)', text, IGNORECASE | DOTALL):
\* the text after the first marker up to the first newline that an Action
\* marker follows, or up to the end.
ThoughtMatch(text) ==
    LET hits == {i \in 1..Len(text) : text[i] \in ThoughtMarkers}
    IN  IF hits = {} THEN None
        ELSE LET p == SkipWs(text, Min(hits) + 1)
                 stop == {j \in p..(Len(text) - 1) :
                             text[j] = "\n" /\ text[j + 1] \in ActionMarkers}
             IN  IF stop = {} THEN Some(SubSeq(text, p, Len(text)))
                 ELSE Some(SubSeq(text, p, Min(stop) - 1))

\* The exceptions the except clause around json.loads catches.
CaughtByParser(err) == err = "JSONDecodeError"

\* The action_input of _parse_action: {} without a capture, the decoded JSON
\* value of the capture, or {"input": <capture without quotes>} when
\* json.loads raises JSONDecodeError.
ParseActionInput(text) ==
    LET m == ActionInputMatch(text)
        input_str == Strip(m.val)
        r == json_loads(input_str)
    IN  IF ~m.some THEN PyDict(<<>>)
        ELSE IF r.ok THEN r.val
        ELSE PyDict("input" :> PyStr(StripQuotes(input_str)))

\* _parse_action(text) raises: there is an action match and json.loads of
\* the captured Action Input raises an exception the except clause does not
\* catch.
_parse_action_raises(text) ==
    LET m == ActionInputMatch(text)
        r == json_loads(Strip(m.val))
    IN  /\ ActionMatch(text).some
        /\ m.some
        /\ ~r.ok
        /\ ~CaughtByParser(r.err)

\* _parse_action(text): None without an action match, else the dict with
\* 'action', 'action_input' and 'thought'.
_parse_action(text) ==
    LET action_match == ActionMatch(text)
        thought_match == ThoughtMatch(text)
    IN  IF ~action_match.some THEN None
        ELSE Some([action |-> action_match.val,
                   action_input |-> ParseActionInput(text),
                   thought |-> IF thought_match.some
                               THEN Strip(thought_match.val) ELSE <<>>])

\* ------------------------------------------------------------------- tools

\* BUILTIN_TOOLS: name -> tool dict (description and parameter schema are
\* kept as the one text _build_tool_descriptions renders for the tool).
BUILTIN_TOOLS ==
    [name \in {"calculator", "get_current_time", "system_info"} |->
        [name |-> name, description |-> "<description and parameters>",
         executor |-> name]]

\* get_builtin_tool(tool_name): BUILTIN_TOOLS.get(tool_name).
get_builtin_tool(tool_name) ==
    IF tool_name \in DOMAIN BUILTIN_TOOLS
    THEN Some(BUILTIN_TOOLS[tool_name]) ELSE None

\* A tool list handed to run(query, tools) by the caller: one tool whose
\* executor is an arbitrary callable taking **kwargs.
CallerTools ==
    << [name |-> "hello", description |-> "<description and parameters>",
        executor |-> "custom"] >>

\* The keyword parameters an executor's def declares and those without a
\* default; anyKw for a def taking **kwargs.
Signature(executor) ==
    CASE executor = "calculator" ->
            [params |-> {"expression"}, required |-> {"expression"}, anyKw |-> FALSE]
      [] executor = "get_current_time" ->
            [params |-> {"timezone"}, required |-> {}, anyKw |-> FALSE]
      [] executor = "system_info" ->
            [params |-> {}, required |-> {}, anyKw |-> FALSE]
      [] OTHER ->
            [params |-> {}, required |-> {}, anyKw |-> TRUE]

\* The body of an executor on bound arguments: raised or not, and the text
\* of str(result) or str(e).  calculator evaluates arithmetic and raises
\* ValueError on anything else; get_current_time and system_info return;
\* a caller's executor returns or raises as the environment (env) decides.
ExecutorBody(executor, kwargs, env) ==
    CASE executor = "calculator" ->
            IF kwargs["expression"].t = "str" /\ kwargs["expression"].v = <<"2+2">>
            THEN [raised |-> FALSE, text |-> <<"4.0">>]
            ELSE [raised |-> TRUE, text |-> <<"Invalid mathematical expression: ">>]
      [] executor = "get_current_time" ->
            [raised |-> FALSE, text |-> <<"2026-01-01 00:00:00">>]
      [] executor = "system_info" ->
            [raised |-> FALSE, text |-> <<"{'system': 'Linux'}">>]
      [] OTHER ->
            IF env = "raises"
            THEN [raised |-> TRUE, text |-> <<"boom">>]
            ELSE [raised |-> FALSE, text |-> <<"ok">>]

\* tool['executor'](**tool_input): TypeError when tool_input is no mapping
\* or its keys do not bind to the executor's parameters (the body does not
\* run), else the body's outcome.
CallExecutor(executor, tool_input, env) ==
    LET sig == Signature(executor)
        keys == DOMAIN tool_input.v
    IN  IF tool_input.t # "dict"
        THEN [raised |-> TRUE, ran |-> FALSE,
              text |-> <<"argument after ** must be a mapping">>]
        ELSE IF ~sig.anyKw /\ ~(keys \subseteq sig.params)
        THEN [raised |-> TRUE, ran |-> FALSE,
              text |-> <<"got an unexpected keyword argument">>]
        ELSE IF ~(sig.required \subseteq keys)
        THEN [raised |-> TRUE, ran |-> FALSE,
              text |-> <<"missing 1 required positional argument">>]
        ELSE [raised |-> ExecutorBody(executor, tool_input.v, env).raised,
              ran |-> TRUE,
              text |-> ExecutorBody(executor, tool_input.v, env).text]

\* No executor call was made.
NoCall == [raised |-> FALSE, ran |-> FALSE, text |-> <<>>]

RECURSIVE NamesRepr(_)

\* The elements of repr([t['name'] for t in tools]).
NamesRepr(ts) ==
    IF ts = <<>> THEN <<>>
    ELSE <<"'", ts[1].name, "'">>
         \o (IF Len(ts) > 1 THEN <<", ">> ELSE <<>>)
         \o NamesRepr(Tail(ts))

\* NotFoundText without the list of available tools.
NotFoundText_NoList(tool_name, ts) ==
    <<"Error: Tool '", tool_name, "' not found.">>

\* The observation for a tool that is not registered.
NotFoundText(tool_name, ts) ==
    <<"Error: Tool '", tool_name, "' not found. Available tools: ", "[">>
    \o NamesRepr(ts) \o <<"]">>

\* HandleToolError that logs and re-raises.
HandleToolError_Reraise(tool_name, out) == [raised |-> TRUE, text |-> out.text]

\* What the except branch of _execute_tool does with a raised exception:
\* the error message is returned as the observation.
HandleToolError(tool_name, out) ==
    [raised |-> FALSE,
     text |-> <<"Error executing tool ", tool_name, ": ">> \o out.text]

\* _execute_tool(tool_name, tool_input): the observation it returns
\* (raised = FALSE) or the exception that leaves it, with the executor call
\* it made, if any.  found = 0 when no tool of ts has that name.
_execute_tool(ts, tool_name, tool_input, env) ==
    LET hits == {i \in 1..Len(ts) : ts[i].name = tool_name}
        found == IF hits = {} THEN 0 ELSE Min(hits)
        out == CallExecutor(ts[found].executor, tool_input, env)
    IN  IF found = 0
        THEN [raised |-> FALSE, text |-> NotFoundText(tool_name, ts),
              called |-> FALSE, call |-> NoCall]
        ELSE IF out.raised
        THEN [raised |-> HandleToolError(tool_name, out).raised,
              text |-> HandleToolError(tool_name, out).text,
              called |-> TRUE, call |-> out]
        ELSE [raised |-> FALSE, text |-> out.text, called |-> TRUE, call |-> out]

\* -------------------------------------------------------- tool descriptors

\* A docstring is a sequence of lines, a line a sequence of tokens: ":" ,
\* whitespace, words, and phrases standing for free text.

\* The type annotations of the callables: "none" for a parameter that has
\* no annotation.
Annotations == {"none", "str", "int", "list"}

ParamNames == {"text", "max_words", "self"}

\* The parameters of a def: name, annotation, whether it has a default.
ParamSpecs == [name : ParamNames, annotation : Annotations, has_default : BOOLEAN]

\* The parameter lists Python accepts: distinct names, and no parameter
\* without a default after one with a default.
ParamLists ==
    UNION { { ps \in [1..n -> ParamSpecs] :
                /\ \A i, j \in 1..n : i # j => ps[i].name # ps[j].name
                /\ \A i, j \in 1..n : (i < j /\ ps[i].has_default) => ps[j].has_default }
            : n \in 0..MaxParams }

\* The docstring of create_summary in advanced_example.py, as written.
DocSummary ==
    << <<>>,
       <<"    ", "Create a summary of the given text">>,
       <<"    ">>,
       <<"    ", "Args", ":">>,
       <<"    ", "    ", "text", ":", " ", "The text to summarize">>,
       <<"    ", "    ", "max_words", ":", " ",
         "Maximum number of words in summary (default", ":", " ", "50)">>,
       <<>>,
       <<"    ", "Returns", ":">>,
       <<"    ", "    ", "A summarized version of the text">>,
       <<"    ">> >>

\* func.__doc__ of the callables: none, blank, one line, an Args section
\* that lists one parameter, the docstring of create_summary.
Docs ==
    { None,
      Some(<< <<"    ">> >>),
      Some(<< <<"Create a summary of the given text">> >>),
      Some(<< <<"Create a summary of the given text">>,
              <<"    ", "Args", ":">>,
              <<"    ", "    ", "text", ":", " ", "The text to summarize">> >>),
      Some(DocSummary) }

\* The callables handed to register_tool and get_tool_description.
Callables ==
    [name : {"create_summary"}, _is_tool : BOOLEAN, doc : Docs, params : ParamLists]

\* The number of indentation levels a line starts with.
Indent(line) ==
    LET other == {i \in 1..Len(line) : line[i] # "    "}
    IN  IF other = {} THEN Len(line) ELSE Min(other) - 1

\* line.lstrip().
LStrip(line) == SubSeq(line, SkipWs(line, 1), Len(line))

\* inspect.cleandoc(doc) on the lines of doc: the first line is stripped on
\* the left, the common indentation of the later non-blank lines is removed
\* from the later lines, and empty lines at both ends are dropped.
cleandoc(lines) ==
    LET filled == {i \in 2..Len(lines) : Strip(lines[i]) # <<>>}
        margin == IF filled = {} THEN 0
                  ELSE Min({Indent(lines[i]) : i \in filled})
        cut(line) == SubSeq(line, Min({margin, Len(line)}) + 1, Len(line))
        shifted == [i \in 1..Len(lines) |->
                        IF i = 1 THEN LStrip(lines[1]) ELSE cut(lines[i])]
        kept == {i \in 1..Len(lines) : shifted[i] # <<>>}
    IN  IF kept = {} THEN <<>> ELSE SubSeq(shifted, Min(kept), Max(kept))

\* inspect.getdoc(func): None without a docstring, else the cleaned lines
\* (no line at all for the empty string).
getdoc(f) == IF f.doc.some THEN Some(cleandoc(f.doc.val)) ELSE None

\* ":" in line.
HasColon(line) == \E i \in 1..Len(line) : line[i] = ":"

\* line.split(":", 1): the text before and after the first colon.
SplitColon(line) ==
    LET c == Min({i \in 1..Len(line) : line[i] = ":"})
    IN  [before |-> SubSeq(line, 1, c - 1), after |-> SubSeq(line, c + 1, Len(line))]

\* line.startswith("Args:").
StartsWithArgs(line) == Len(line) >= 2 /\ line[1] = "Args" /\ line[2] = ":"

\* The annotation func.__annotations__ holds under a name, "none" when the
\* name is not a key of it.
AnnotationOf(f, arg_name) ==
    LET hit == {i \in 1..Len(f.params) : <<f.params[i].name>> = arg_name}
    IN  IF hit = {} THEN "none" ELSE f.params[CHOOSE i \in hit : TRUE].annotation

\* The schema type src/tools.py infers for a documented name.
ArgType(f, arg_name) ==
    CASE AnnotationOf(f, arg_name) = "int" -> "integer"
      [] AnnotationOf(f, arg_name) = "float" -> "number"
      [] AnnotationOf(f, arg_name) = "bool" -> "boolean"
      [] OTHER -> "string"

\* A descriptor's parameters before any is added.
NoParams == [properties |-> <<>>, required |-> <<>>]

\* AddArg that lists the name as required without a properties entry.
AddArg_RequiredOnly(f, params, arg_name, arg_desc) ==
    [properties |-> params.properties,
     required |-> Append(params.required, arg_name)]

\* One documented argument: its properties entry is set and its name is
\* appended to required.
AddArg(f, params, arg_name, arg_desc) ==
    [properties |-> (arg_name :> [type |-> ArgType(f, arg_name), description |-> arg_desc])
                    @@ params.properties,
     required |-> Append(params.required, arg_name)]

RECURSIVE ScanArgs(_, _, _, _, _)

\* The loop of get_tool_description over lines[1:], from line i on.
ScanArgs(f, lines, i, args_section, params) ==
    IF i > Len(lines) THEN params
    ELSE LET line == Strip(lines[i])
         IN  IF StartsWithArgs(line)
             THEN ScanArgs(f, lines, i + 1, TRUE, params)
             ELSE IF args_section /\ HasColon(line)
             THEN ScanArgs(f, lines, i + 1, args_section,
                           AddArg(f, params, Strip(SplitColon(line).before),
                                  Strip(SplitColon(line).after)))
             ELSE ScanArgs(f, lines, i + 1, args_section, params)

\* What a get_tool_description call gives: the error raised, or the
\* descriptor.
DescRaised(by, err) == [by |-> by, raised |-> err, val |-> <<>>]

DescReturned(by, desc) == [by |-> by, raised |-> "", val |-> desc]

\* get_tool_description without the test for the register_tool mark.
get_tool_description_AnyCallable(f) ==
    LET doc == getdoc(f)
        lines == doc.val
    IN  IF ~doc.some \/ lines = <<>> THEN DescRaised("tools", "ValueError")
        ELSE DescReturned("tools",
                 [name |-> f.name,
                  description |-> lines[1],
                  parameters |-> ScanArgs(f, lines, 2, FALSE, NoParams)])

\* get_tool_description(func) of src/tools.py.
get_tool_description(f) ==
    LET doc == getdoc(f)
        lines == doc.val
    IN  IF ~f._is_tool THEN DescRaised("tools", "TypeError")
        ELSE IF ~doc.some \/ lines = <<>> THEN DescRaised("tools", "ValueError")
        ELSE DescReturned("tools",
                 [name |-> f.name,
                  description |-> lines[1],
                  parameters |-> ScanArgs(f, lines, 2, FALSE, NoParams)])

\* name in token: the docstring phrases that contain a parameter name.
Contains(token, name) ==
    \/ token = name
    \/ /\ name = "text"
       /\ token \in {"Create a summary of the given text", "The text to summarize",
                     "A summarized version of the text"}

\* 'Args:' in line.
ContainsArgs(line) == \E i \in 1..(Len(line) - 1) : line[i] = "Args" /\ line[i + 1] = ":"

\* param_name in line.
LineHas(line, name) == \E i \in 1..Len(line) : Contains(line[i], name)

\* line.strip().startswith(param_name).
LineStartsWith(line, name) == Strip(line) # <<>> /\ Strip(line)[1] = name

\* The description get_tool_description of miniagent/tools gives a
\* parameter the docstring does not describe.
DefaultParamDesc(name) == <<"Parameter ", name>>

RECURSIVE FindParamDesc(_, _, _, _)

\* The loop over doc_lines of miniagent/tools get_tool_description, from
\* line i on: the text after the colon of the first line in the Args
\* section that contains the parameter name.
FindParamDesc(lines, i, in_args, name) ==
    IF i > Len(lines) THEN DefaultParamDesc(name)
    ELSE IF ContainsArgs(lines[i]) THEN FindParamDesc(lines, i + 1, TRUE, name)
    ELSE IF in_args /\ LineHas(lines[i], name)
    THEN IF HasColon(lines[i]) THEN Strip(SplitColon(lines[i]).after)
         ELSE DefaultParamDesc(name)
    ELSE IF in_args /\ Strip(lines[i]) # <<>> /\ ~LineStartsWith(lines[i], name)
    THEN FindParamDesc(lines, i + 1, FALSE, name)
    ELSE FindParamDesc(lines, i + 1, in_args, name)

\* Python truth of func.__doc__: None and "" are false.
HasDoc(f) == f.doc.some /\ f.doc.val # <<>> /\ f.doc.val # << <<>> >>

RECURSIVE JoinLines(_)

\* "\n".join(lines).
JoinLines(lines) ==
    IF lines = <<>> THEN <<>>
    ELSE IF Len(lines) = 1 THEN lines[1]
    ELSE lines[1] \o <<"\n">> \o JoinLines(Tail(lines))

\* The schema type miniagent/tools gives an annotation.
JsonType(annotation) ==
    CASE annotation = "int" -> "integer"
      [] annotation = "float" -> "number"
      [] annotation = "bool" -> "boolean"
      [] annotation = "list" -> "array"
      [] annotation = "dict" -> "object"
      [] OTHER -> "string"

RECURSIVE BuildParameters(_, _, _)

\* The loop of miniagent/tools get_tool_description over sig.parameters,
\* from parameter i on.
BuildParameters(f, i, params) ==
    IF i > Len(f.params) THEN params
    ELSE LET param == f.params[i]
             param_desc == IF HasDoc(f)
                           THEN FindParamDesc(f.doc.val, 1, FALSE, param.name)
                           ELSE DefaultParamDesc(param.name)
             entry == [type |-> JsonType(param.annotation), description |-> param_desc]
         IN  IF param.name = "self" THEN BuildParameters(f, i + 1, params)
             ELSE BuildParameters(f, i + 1,
                    [properties |-> (<<param.name>> :> entry) @@ params.properties,
                     required |-> IF param.has_default THEN params.required
                                  ELSE Append(params.required, <<param.name>>)])

\* get_tool_description(func) of miniagent/tools/__init__.py.
miniagent_get_tool_description(f) ==
    DescReturned("miniagent.tools",
        [name |-> f.name,
         description |-> IF HasDoc(f) THEN Strip(JoinLines(f.doc.val))
                         ELSE <<"No description available">>,
         parameters |-> BuildParameters(f, 1, NoParams)])

\* ------------------------------------------------------------ model client

\* Completions the model client returns (the reply set of the stub client).
Replies ==
    { <<" ", "hello", "\n">>,
      <<"my final answer is", " ", "4">>,
      <<"Final Answer:", " ", "4">>,
      <<"Thought:", " ", "done", "\n", "Final Answer:", " ">>,
      <<"Thought:", " ", "done", "\n", "Action:", " ", "calculator", "\n",
        "Action Input:", " ", "{", "\"expression\"", ":", "\"2+2\"", "}", "\n",
        "Final Answer:", " ", "2">>,
      <<"Action:", " ", "calculator", "\n",
        "Action Input:", " ", "{", "\"expression\"", ":", "\"2+2\"", "}", "\n",
        "final answer:", "\n">>,
      <<"Thought:", " ", "hello", "\n", "Action:", " ", "calculator", "\n",
        "Action Input:", " ", "{", "\"expression\"", ":", " ", "\"2+2\"", "}">>,
      <<"Action:", " ", "calculator", "\n",
        "Action Input:", " ", "{", "\"expression\"", ":", " ", "\"a\"", "}">>,
      <<"Action:", " ", "hello", "\n",
        "Action Input:", " ", "{", "\"a\"", ":", " ",
        "{", "\"expression\"", ":", "[", "\"2+2\"", ",", "4", "]", "}", "}">>,
      <<"Action:", " ", "hello", "\n",
        "Action Input:", " ", "{", "\"a\"", ":", "[", "4", "]", "}">>,
      <<"Action:", " ", "calculator", "\n", "Action Input:", " ", "banana">>,
      <<"Action:", " ", "nope", "\n", "Action Input:", " ", "{", "}">>,
      <<"Action:", " ", "get_current_time", "\n", "Action Input:", " ", "{", "}", "\n",
        "Action:", " ", "calculator", "\n",
        "Action Input:", " ", "{", "\"expression\"", ":", " ", "\"2+2\"", "}">>,
      <<"action:", " ", "get_current_time", "\n",
        "action input:", " ", "[", "\"2+2\"", "]">>,
      <<"Action:", " ", "calculator", "\n", "Action Input:", " ", "\"C:\\path\"">>,
      <<"Action:", " ", "calculator", "\n", "Action Input:", " ", DeepBrackets, "]">>,
      <<"Action:", " ", "calculator", "\n",
        "Action:", " ", "hello", "\n",
        "Action Input:", " ", "{", "\"a\"", ":", "[", "4", "]", "}">> }

\* Adjacent tokens spell no marker and extend no word: a word or digit
\* token is never directly followed by a token starting with a word
\* character.
WellTokenised(text) ==
    \A i \in 1..(Len(text) - 1) :
        text[i] \in WordTokens \cup DigitTokens => LeadingWord(text[i + 1]) = ""

\* What the executor of a caller's tool may do when called.
Envs == {"returns", "raises"}

\* The user queries run is called with.
Queries == { <<"Calculate 2+2">> }

\* ------------------------------------------------------------------- state

VARIABLES
    max_iterations,  \* self.max_iterations
    tools,           \* self.tools
    pc,              \* "init": constructed; "loop": at the for statement of
                     \* run; "returned" / "raised": run has ended
    messages,        \* run's transcript
    iteration,       \* iterations of the for loop completed
    response,        \* run's local: the last completion received
    action_info,     \* run's local: the last result of _parse_action
    observation,     \* run's local: the last result of _execute_tool
    result,          \* what run returned or raised
    llm_calls,       \* calls of _call_llm made by this run
    calls,           \* the executor calls made by this run, in order
    lists,           \* SpecInstances: the list objects, id -> contents
    self_tools,      \* SpecInstances: instance -> id of its self.tools
    func,            \* SpecDescribe: the callable given to the tools module
    tool_desc        \* SpecDescribe: what the last get_tool_description
                     \* call returned or raised

\* The state of the instance whose run is followed step by step.
agent_vars == <<max_iterations, tools, pc, messages, iteration, response,
                action_info, observation, result, llm_calls, calls>>

\* The state of the two instances of SpecInstances and the list objects
\* they and their caller hold.
instance_vars == <<lists, self_tools>>

\* The callable and the descriptor of SpecDescribe.
describe_vars == <<func, tool_desc>>

vars == <<max_iterations, tools, pc, messages, iteration, response,
          action_info, observation, result, llm_calls, calls,
          lists, self_tools, func, tool_desc>>

Message(role, content) == [role |-> role, content |-> content]

\* _get_default_system_prompt().
DefaultSystemPrompt == "You are a helpful AI assistant that can use tools to answer questions."

RECURSIVE ToolBlocks(_)

\* The per-tool lines of _build_tool_descriptions.
ToolBlocks(ts) ==
    IF ts = <<>> THEN <<>>
    ELSE <<"Tool: ", ts[1].name, "\n", ts[1].description, "\n\n">>
         \o ToolBlocks(Tail(ts))

\* _build_tool_descriptions().
_build_tool_descriptions(ts) ==
    IF ts = <<>> THEN <<"No tools available.">>
    ELSE <<"Available Tools:\n\n">> \o ToolBlocks(ts)

\* The system message run builds: the prompt, and the tool catalog only
\* when a tool is registered.
SystemMessage(ts) ==
    <<DefaultSystemPrompt>>
    \o (IF ts # <<>> THEN <<"\n\n">> \o _build_tool_descriptions(ts) ELSE <<>>)

\* The clarification instruction of run.
Nudge == <<"Please respond in the required format with either an Action or Final Answer.">>

\* The string run returns when the loop ends.
Apology == <<"I apologize, but I couldn't complete the task within the maximum number of steps. Please try rephrasing your question or breaking it into smaller parts.">>

\* ObservationContent without the "Observation: " prefix.
ObservationContent_Bare(obs) == obs

\* f"Observation: {observation}".
ObservationContent(obs) == <<"Observation: ">> \o obs

\* Python truth of an Optional[str]: None and "" are false.
Truthy(opt) == opt.some /\ opt.val # <<>>

\* "final answer" in response.lower().
HasFinalAnswerPhrase(text) == \E i \in 1..Len(text) : LowerHasFinalAnswer(text[i])

\* ShouldClarify without the test for the last iteration.
ShouldClarify_AnyIteration(text, it, maxit) == ~HasFinalAnswerPhrase(text)

\* ShouldClarify with the last-iteration test off by one.
ShouldClarify_OneEarly(text, it, maxit) == ~HasFinalAnswerPhrase(text) /\ it < maxit - 2

\* ShouldClarify without the test for the "final answer" phrase.
ShouldClarify_IgnorePhrase(text, it, maxit) == it < maxit - 1

\* The condition under which run asks for the required format instead of
\* returning the raw response.
ShouldClarify(text, it, maxit) == ~HasFinalAnswerPhrase(text) /\ it < maxit - 1

Returned(text) == [kind |-> "return", val |-> text]

\* BestEffort that trims the response before returning it.
BestEffort_Stripped(text) == Returned(Strip(text))

\* The else branch of run ("Last iteration or seems like an answer"):
\* return response.
BestEffort(text) == Returned(text)

\* An exception leaving run: where it was raised and its text.
Raised(origin, text) == [kind |-> origin, val |-> text]

\* The instances of SpecInstances.
Instances == {"A", "B"}

\* The list objects: the list each constructor creates for self.tools, and
\* one list the caller builds and passes to run.
ListIds == Instances \cup {"caller"}

\* After the two constructors and the caller's list literal.
InitInstances ==
    /\ lists = [id \in ListIds |-> IF id = "caller" THEN CallerTools ELSE <<>>]
    /\ self_tools = [a \in Instances |-> a]

\* No callable has been handed to the tools module.
InitNoCallable ==
    /\ func = [name |-> "", _is_tool |-> FALSE, doc |-> None, params |-> <<>>]
    /\ tool_desc = [by |-> "none", raised |-> "", val |-> <<>>]

\* The instance after its constructor, but for max_iterations.
InitAgent ==
    /\ tools = <<>>
    /\ pc = "init"
    /\ messages = <<>>
    /\ iteration = 0
    /\ response = <<>>
    /\ action_info = None
    /\ observation = <<>>
    /\ result = [kind |-> "none", val |-> <<>>]
    /\ llm_calls = 0
    /\ calls = <<>>

Init ==
    /\ InitInstances
    /\ InitNoCallable
    /\ max_iterations \in 0..MaxIter
    /\ InitAgent

\* load_builtin_tool(tool_name): append the built-in tool, or only warn.
load_builtin_tool(tool_name) ==
    /\ UNCHANGED instance_vars
    /\ UNCHANGED describe_vars
    /\ pc = "init"
    /\ Len(tools) < MaxTools
    /\ tools' = IF get_builtin_tool(tool_name).some
                THEN Append(tools, get_builtin_tool(tool_name).val)
                ELSE tools
    /\ UNCHANGED <<max_iterations, pc, messages, iteration, response,
                   action_info, observation, result, llm_calls, calls>>

\* StartRun that goes on with the transcript the instance had.
StartRun_KeepTranscript(query, tools_arg) ==
    /\ UNCHANGED instance_vars
    /\ UNCHANGED describe_vars
    /\ tools' = IF tools_arg.some THEN tools_arg.val ELSE tools
    /\ messages' = messages \o << Message("system", SystemMessage(tools')),
                                  Message("user", query) >>
    /\ iteration' = 0
    /\ pc' = "loop"
    /\ response' = <<>>
    /\ action_info' = None
    /\ observation' = <<>>
    /\ result' = [kind |-> "none", val |-> <<>>]
    /\ llm_calls' = 0
    /\ calls' = <<>>
    /\ UNCHANGED max_iterations

\* StartRun whose transcript starts with the user message only.
StartRun_NoSystemMessage(query, tools_arg) ==
    /\ UNCHANGED instance_vars
    /\ UNCHANGED describe_vars
    /\ tools' = IF tools_arg.some THEN tools_arg.val ELSE tools
    /\ messages' = << Message("user", query) >>
    /\ iteration' = 0
    /\ pc' = "loop"
    /\ response' = <<>>
    /\ action_info' = None
    /\ observation' = <<>>
    /\ result' = [kind |-> "none", val |-> <<>>]
    /\ llm_calls' = 0
    /\ calls' = <<>>
    /\ UNCHANGED max_iterations

\* The body of run up to the for statement: the tools override, the system
\* message and the new transcript; the locals of a run and what is recorded
\* about it start empty.  tools_arg is None or Some(list).
StartRun(query, tools_arg) ==
    /\ UNCHANGED instance_vars
    /\ UNCHANGED describe_vars
    /\ tools' = IF tools_arg.some THEN tools_arg.val ELSE tools
    /\ messages' = << Message("system", SystemMessage(tools')),
                      Message("user", query) >>
    /\ iteration' = 0
    /\ pc' = "loop"
    /\ response' = <<>>
    /\ action_info' = None
    /\ observation' = <<>>
    /\ result' = [kind |-> "none", val |-> <<>>]
    /\ llm_calls' = 0
    /\ calls' = <<>>
    /\ UNCHANGED max_iterations

\* The first call of run(query, tools) on the instance.
run(query, tools_arg) ==
    /\ pc = "init"
    /\ StartRun(query, tools_arg)

\* A later call of run(query, tools) on the same instance, after the
\* earlier call returned or raised.
run_again(query, tools_arg) ==
    /\ pc \in {"returned", "raised"}
    /\ StartRun(query, tools_arg)

\* call_llm_raises that retries the request once before giving up.
call_llm_raises_Retry ==
    /\ UNCHANGED instance_vars
    /\ UNCHANGED describe_vars
    /\ pc = "loop"
    /\ iteration < max_iterations
    /\ llm_calls' = llm_calls + 2
    /\ result' = Raised("llm", <<"RequestException">>)
    /\ pc' = "raised"
    /\ UNCHANGED <<max_iterations, tools, messages, iteration, response,
                   action_info, observation, calls>>

\* An iteration whose _call_llm raises: the exception leaves run.
call_llm_raises ==
    /\ UNCHANGED instance_vars
    /\ UNCHANGED describe_vars
    /\ pc = "loop"
    /\ iteration < max_iterations
    /\ llm_calls' = llm_calls + 1
    /\ result' = Raised("llm", <<"RequestException">>)
    /\ pc' = "raised"
    /\ UNCHANGED <<max_iterations, tools, messages, iteration, response,
                   action_info, observation, calls>>

\* Dispatch that records the executor call twice.
Dispatch_Twice(reply, info, env) ==
    LET x == _execute_tool(tools, info.action, info.action_input, env)
        c == [iteration |-> iteration, tool |-> info.action,
              tool_input |-> info.action_input,
              ran |-> x.call.ran, raised |-> x.call.raised]
    IN  /\ calls' = IF x.called THEN calls \o <<c, c>> ELSE calls
        /\ observation' = x.text
        /\ messages' = messages
                        \o << Message("assistant", reply),
                              Message("user", ObservationContent(x.text)) >>
        /\ iteration' = iteration + 1
        /\ UNCHANGED <<pc, result>>

\* The dispatch branch of an iteration: _execute_tool, then the two appends,
\* unless an exception leaves _execute_tool.
Dispatch(reply, info, env) ==
    LET x == _execute_tool(tools, info.action, info.action_input, env)
    IN  /\ calls' = IF x.called
                    THEN Append(calls, [iteration |-> iteration,
                                        tool |-> info.action,
                                        tool_input |-> info.action_input,
                                        ran |-> x.call.ran,
                                        raised |-> x.call.raised])
                    ELSE calls
        /\ IF x.raised
           THEN /\ result' = Raised("tool", x.text)
                /\ pc' = "raised"
                /\ UNCHANGED <<messages, iteration, observation>>
           ELSE /\ observation' = x.text
                /\ messages' = messages
                                \o << Message("assistant", reply),
                                      Message("user", ObservationContent(x.text)) >>
                /\ iteration' = iteration + 1
                /\ UNCHANGED <<pc, result>>

\* Parsed whose parser forgets actions after the first iteration of a run.
Parsed_Stateful ==
    [reply \in Replies |->
        [final_answer |-> _check_final_answer(reply),
         raises |-> _parse_action_raises(reply),
         action_info |-> IF iteration = 0 THEN _parse_action(reply) ELSE None]]

\* What run computes from a completion, for each completion the stub client
\* returns: final_answer = _check_final_answer(response), whether
\* _parse_action(response) raises, and action_info = _parse_action(response).
Parsed ==
    [reply \in Replies |->
        [final_answer |-> _check_final_answer(reply),
         raises |-> _parse_action_raises(reply),
         action_info |-> _parse_action(reply)]]

\* One iteration of the for loop in which _call_llm returns reply.
run_iteration(reply, env) ==
    /\ UNCHANGED instance_vars
    /\ UNCHANGED describe_vars
    /\ pc = "loop"
    /\ iteration < max_iterations
    /\ llm_calls' = llm_calls + 1
    /\ response' = reply
    /\ UNCHANGED <<max_iterations, tools>>
    /\ IF Truthy(Parsed[reply].final_answer)
       THEN /\ result' = Returned(Parsed[reply].final_answer.val)
            /\ pc' = "returned"
            /\ UNCHANGED <<messages, iteration, action_info, observation, calls>>
       ELSE IF Parsed[reply].raises
       THEN /\ result' = Raised("parse", <<"RecursionError">>)
            /\ pc' = "raised"
            /\ UNCHANGED <<messages, iteration, action_info, observation, calls>>
       ELSE /\ action_info' = Parsed[reply].action_info
            /\ IF Parsed[reply].action_info.some
               THEN Dispatch(reply, Parsed[reply].action_info.val, env)
               ELSE IF ShouldClarify(reply, iteration, max_iterations)
               THEN /\ messages' = messages
                                    \o << Message("assistant", reply),
                                          Message("user", Nudge) >>
                    /\ iteration' = iteration + 1
                    /\ UNCHANGED <<pc, result, observation, calls>>
               ELSE /\ result' = BestEffort(reply)
                    /\ pc' = "returned"
                    /\ UNCHANGED <<messages, iteration, observation, calls>>

\* run_exhausted that raises an error instead of returning.
run_exhausted_Raises ==
    /\ UNCHANGED instance_vars
    /\ UNCHANGED describe_vars
    /\ pc = "loop"
    /\ iteration >= max_iterations
    /\ result' = Raised("limit", <<"IterationLimitExceeded">>)
    /\ pc' = "raised"
    /\ UNCHANGED <<max_iterations, tools, messages, iteration, response,
                   action_info, observation, llm_calls, calls>>

\* run_exhausted that gives up at any point of the loop.
run_exhausted_Early ==
    /\ UNCHANGED instance_vars
    /\ UNCHANGED describe_vars
    /\ pc = "loop"
    /\ result' = Returned(Apology)
    /\ pc' = "returned"
    /\ UNCHANGED <<max_iterations, tools, messages, iteration, response,
                   action_info, observation, llm_calls, calls>>

\* The for loop is exhausted: run returns the apology.
run_exhausted ==
    /\ UNCHANGED instance_vars
    /\ UNCHANGED describe_vars
    /\ pc = "loop"
    /\ iteration >= max_iterations
    /\ result' = Returned(Apology)
    /\ pc' = "returned"
    /\ UNCHANGED <<max_iterations, tools, messages, iteration, response,
                   action_info, observation, llm_calls, calls>>

Next ==
    \/ \E tool_name \in {"calculator", "get_current_time", "nope"} :
            load_builtin_tool(tool_name)
    \/ \E query \in Queries, tools_arg \in {None, Some(CallerTools)} :
            run(query, tools_arg)
    \/ call_llm_raises
    \/ \E reply \in Replies, env \in Envs : run_iteration(reply, env)
    \/ run_exhausted

Spec == Init /\ [][Next]_vars

\* The queries of the later run calls on an instance.
LaterQueries == { <<"What time is it?">> }

\* The completions of the stub client in the runs of SpecRuns: free text,
\* an action, a final answer.
RunsReplies ==
    { <<" ", "hello", "\n">>,
      <<"Thought:", " ", "hello", "\n", "Action:", " ", "calculator", "\n",
        "Action Input:", " ", "{", "\"expression\"", ":", " ", "\"2+2\"", "}">>,
      <<"Final Answer:", " ", "4">> }

\* Several run calls, one after the other, on one instance.
NextRuns ==
    \/ \E tool_name \in {"calculator", "nope"} : load_builtin_tool(tool_name)
    \/ \E query \in Queries, tools_arg \in {None, Some(CallerTools)} :
            run(query, tools_arg)
    \/ \E query \in Queries \cup LaterQueries, tools_arg \in {None, Some(CallerTools)} :
            run_again(query, tools_arg)
    \/ call_llm_raises
    \/ \E reply \in RunsReplies, env \in Envs : run_iteration(reply, env)
    \/ run_exhausted

SpecRuns == Init /\ [][NextRuns]_vars

\* The tools instance a has registered: the contents of the list object its
\* self.tools refers to.
ToolsOf(a) == lists[self_tools[a]]

\* a.load_builtin_tool(tool_name) on instance a: self.tools.append mutates
\* the list object a's self.tools refers to.
Instance_load_builtin_tool(a, tool_name) ==
    /\ Len(ToolsOf(a)) < MaxTools
    /\ lists' = IF get_builtin_tool(tool_name).some
                THEN [lists EXCEPT ![self_tools[a]] =
                                        Append(@, get_builtin_tool(tool_name).val)]
                ELSE lists
    /\ UNCHANGED self_tools
    /\ UNCHANGED agent_vars
    /\ UNCHANGED describe_vars

\* a.run(query, tools) on instance a, as far as the registry goes: with a
\* tools argument self.tools becomes that list object (tools_ref is None or
\* Some(list id)); the rest of run only reads self.tools.
Instance_run(a, tools_ref) ==
    /\ self_tools' = IF tools_ref.some
                     THEN [self_tools EXCEPT ![a] = tools_ref.val]
                     ELSE self_tools
    /\ UNCHANGED lists
    /\ UNCHANGED agent_vars
    /\ UNCHANGED describe_vars

\* Two instances and one caller: registrations and run calls in any order.
\* register_tool(func) of src/tools.py: marks the callable as a tool.
register_tool ==
    /\ ~func._is_tool
    /\ func' = [func EXCEPT !._is_tool = TRUE]
    /\ UNCHANGED tool_desc
    /\ UNCHANGED agent_vars
    /\ UNCHANGED instance_vars

\* A call get_tool_description(func) of src/tools.py.
call_get_tool_description ==
    /\ tool_desc' = get_tool_description(func)
    /\ UNCHANGED func
    /\ UNCHANGED agent_vars
    /\ UNCHANGED instance_vars

\* A call get_tool_description(func) of miniagent/tools/__init__.py.
call_miniagent_get_tool_description ==
    /\ tool_desc' = miniagent_get_tool_description(func)
    /\ UNCHANGED func
    /\ UNCHANGED agent_vars
    /\ UNCHANGED instance_vars

\* A callable is defined, any of Callables; no descriptor has been made.
InitDescribe ==
    /\ InitInstances
    /\ InitAgent
    /\ max_iterations = 10
    /\ func \in Callables
    /\ tool_desc = [by |-> "none", raised |-> "", val |-> <<>>]

NextDescribe ==
    \/ register_tool
    \/ call_get_tool_description
    \/ call_miniagent_get_tool_description

SpecDescribe == InitDescribe /\ [][NextDescribe]_vars

NextInstances ==
    \/ \E a \in Instances, tool_name \in {"calculator", "get_current_time", "nope"} :
            Instance_load_builtin_tool(a, tool_name)
    \/ \E a \in Instances, tools_ref \in {None, Some("caller")} :
            Instance_run(a, tools_ref)

SpecInstances == Init /\ [][NextInstances]_vars

\* ------------------------------------------------- vocabulary of the claims

Markers == FinalMarkers \cup ActionMarkers \cup InputMarkers \cup ThoughtMarkers

HasFinalMarker(text) == \E i \in 1..Len(text) : text[i] \in FinalMarkers

HasActionMarker(text) == \E i \in 1..Len(text) : text[i] \in ActionMarkers

HasInputMarker(text) == \E i \in 1..Len(text) : text[i] \in InputMarkers

\* The completion carries neither a Final Answer nor an Action marker.
Unrecognised(text) == ~HasFinalMarker(text) /\ ~HasActionMarker(text)

\* The text after the first Final Answer marker, trimmed.
AfterFinalMarker(text) ==
    LET i == Min({j \in 1..Len(text) : text[j] \in FinalMarkers})
    IN  Strip(SubSeq(text, i + 1, Len(text)))

\* The text written after the first Action Input marker, up to the next
\* marker or the end of the completion, trimmed.
InputText(text) ==
    LET i == Min({j \in 1..Len(text) : text[j] \in InputMarkers})
        later == {j \in (i + 1)..Len(text) : text[j] \in Markers}
        stop == IF later = {} THEN Len(text) + 1 ELSE Min(later)
    IN  Strip(SubSeq(text, i + 1, stop - 1))

RECURSIVE PyEq(_, _)

\* Structural equality of two Python values.
PyEq(a, b) ==
    /\ a.t = b.t
    /\ CASE a.t = "dict" ->
              /\ DOMAIN a.v = DOMAIN b.v
              /\ \A k \in DOMAIN a.v : PyEq(a.v[k], b.v[k])
         [] a.t = "list" ->
              /\ Len(a.v) = Len(b.v)
              /\ \A k \in 1..Len(a.v) : PyEq(a.v[k], b.v[k])
         [] OTHER -> a.v = b.v

\* The names registered in self.tools.
ToolNames == {tools[i].name : i \in 1..Len(tools)}

\* The executor calls made in the iteration with index it.
CallsOf(it) == {k \in 1..Len(calls) : calls[k].iteration = it}

\* The replies of the completed iterations, as the transcript holds them.
AssistantReplies ==
    {messages[j].content : j \in {i \in 1..Len(messages) : messages[i].role = "assistant"}}

IsObservation(m) == m.role = "user" /\ Len(m.content) > 0 /\ m.content[1] = "Observation: "

\* This step is an iteration of run in which the model client returned a
\* completion and the parser classified it.
IterationStep == llm_calls' = llm_calls + 1 /\ result'.kind \notin {"llm", "parse"}

\* The last iteration neither returned nor raised: it dispatched
\* action_info or asked for the required format.
AfterOpenIteration == llm_calls > 0 /\ result.kind = "none"

\* ------------------------------------------------------------------ claims

\* C1 (as claimed): after an iteration whose completion holds both a Final
\* Answer marker and an Action marker, run has returned the trimmed text
\* after the Final Answer marker and that iteration called no executor.
C1_PriorityLaw ==
    (/\ llm_calls > 0
     /\ result.kind # "llm"
     /\ HasFinalMarker(response)
     /\ HasActionMarker(response))
    => /\ pc = "returned"
       /\ result = Returned(AfterFinalMarker(response))
       /\ CallsOf(llm_calls - 1) = {}

\* Every completion this run received was unrecognisable text.
AllUnrecognised ==
    /\ llm_calls > 0
    /\ result.kind # "llm"
    /\ Unrecognised(response)
    /\ \A r \in AssistantReplies : Unrecognised(r)

\* C2 (as claimed): with max_iterations = 3 and only unrecognisable
\* completions, run returns after exactly 3 model calls, without a tool
\* call, and returns the apology.
C2_Original ==
    (max_iterations = 3 /\ pc = "returned" /\ AllUnrecognised)
    => /\ llm_calls = 3
       /\ calls = <<>>
       /\ result = Returned(Apology)

\* C2 (amended): with max_iterations = 3 and only unrecognisable
\* completions, run makes at most 3 model calls and no tool call, has
\* returned by the third call, and what it returns is the last completion
\* verbatim (not the apology); it makes exactly 3 model calls when no
\* completion contains the phrase "final answer".
C2_BoundedTermination ==
    (max_iterations = 3 /\ AllUnrecognised)
    => /\ llm_calls <= 3
       /\ calls = <<>>
       /\ pc \in {"loop", "returned"}
       /\ llm_calls = 3 => pc = "returned"
       /\ pc = "returned" =>
            /\ result = Returned(response)
            /\ ~HasFinalAnswerPhrase(response) => llm_calls = 3

\* C2 witness: three unrecognisable completions, the third returned.
C2_Witness ==
    /\ max_iterations = 3
    /\ AllUnrecognised
    /\ pc = "returned"
    /\ llm_calls = 3
    /\ result = Returned(response)

\* C3: when the executor call of a dispatched tool raises, _execute_tool
\* returns an observation describing the error, run stays in its loop, and
\* the transcript gains the assistant reply and exactly one observation
\* message (role user, content starting with "Observation: ").
C3_FaultIsolation ==
    [][ (Len(calls') = Len(calls) + 1 /\ calls'[Len(calls')].raised)
        => /\ pc' = "loop"
           /\ result' = result
           /\ iteration' = iteration + 1
           /\ Len(messages') = Len(messages) + 2
           /\ SubSeq(messages', 1, Len(messages)) = messages
           /\ messages'[Len(messages) + 1] = Message("assistant", response')
           /\ ~IsObservation(messages'[Len(messages) + 1])
           /\ IsObservation(messages'[Len(messages) + 2])
           /\ messages'[Len(messages) + 2].content = ObservationContent(observation')
           /\ Len(observation') > 3
           /\ observation'[1] = "Error executing tool "
           /\ observation'[2] = calls'[Len(calls')].tool ]_vars

\* C3 witness: the body of an executor ran and raised in the last
\* iteration, and run is back at the head of its loop with the error
\* observation appended.
C3_Witness ==
    /\ pc = "loop"
    /\ Len(calls) > 0
    /\ calls[Len(calls)].iteration = iteration - 1
    /\ calls[Len(calls)].ran
    /\ calls[Len(calls)].raised
    /\ IsObservation(messages[Len(messages)])
    /\ messages[Len(messages)].content[2] = "Error executing tool "

\* C4 (as claimed): run ends by returning a string or by raising the error
\* of the model client call; nothing raised by an executor, by a missing
\* tool or by parsing leaves run.
C4_OnlyTransportErrors ==
    /\ result.kind \in {"none", "return", "llm"}
    /\ pc = "raised" <=> result.kind = "llm"
    /\ pc = "returned" <=> result.kind = "return"

\* The Action Input the parser handed to the dispatcher in the last
\* iteration is the one-entry mapping {"input": text}.
ReceivedInputFallback(text) ==
    /\ action_info.val.action_input.t = "dict"
    /\ DOMAIN action_info.val.action_input.v = {"input"}
    /\ action_info.val.action_input.v["input"].t = "str"
    /\ action_info.val.action_input.v["input"].v = text

\* C5 (as claimed): when the completion of a dispatching iteration has an
\* Action Input text that is not valid JSON, the dispatcher receives
\* {"input": <that text, trimmed, surrounding quotes stripped>}.
C5_MalformedInputFallback ==
    (/\ AfterOpenIteration
     /\ action_info.some
     /\ HasInputMarker(response)
     /\ ~json_loads(InputText(response)).ok)
    => ReceivedInputFallback(StripQuotes(InputText(response)))

\* C6 (as claimed): when the completion of a dispatching iteration names a
\* registered tool and its Action Input text is a well-formed JSON object,
\* the iteration calls that tool's executor once, with exactly the decoded
\* object as keyword arguments.
C6_ExactKeywordArguments ==
    (/\ AfterOpenIteration
     /\ action_info.some
     /\ action_info.val.action \in ToolNames
     /\ HasInputMarker(response)
     /\ json_loads(InputText(response)).ok
     /\ json_loads(InputText(response)).val.t = "dict")
    => /\ Cardinality(CallsOf(iteration - 1)) = 1
       /\ \A k \in CallsOf(iteration - 1) :
            /\ calls[k].tool = action_info.val.action
            /\ PyEq(calls[k].tool_input, json_loads(InputText(response)).val)

\* The completion is classified as an action: no non-empty final answer,
\* and an Action marker followed by a tool name.
IsActionReply(text) ==
    /\ HasFinalMarker(text) => AfterFinalMarker(text) = <<>>
    /\ ActionMatch(text).some

\* C7: when every earlier completion of the run was an action (k of them)
\* and the last one carries a non-empty Final Answer, run has returned the
\* trimmed answer after exactly k+1 model calls and k dispatches, with one
\* executor call per action when every action names a registered tool.
C7_EndToEnd ==
    LET k == Cardinality({j \in 1..Len(messages) : messages[j].role = "assistant"})
    IN  (/\ pc = "returned"
         /\ llm_calls > 0
         /\ HasFinalMarker(response)
         /\ AfterFinalMarker(response) # <<>>
         /\ \A r \in AssistantReplies : IsActionReply(r))
        => /\ result = Returned(AfterFinalMarker(response))
           /\ llm_calls = k + 1
           /\ k + 1 <= max_iterations
           /\ Len(messages) = 2 + 2 * k
           /\ Cardinality({j \in 1..Len(messages) : IsObservation(messages[j])}) = k
           /\ (\A r \in AssistantReplies : ActionMatch(r).val \in ToolNames)
                => Len(calls) = k

\* C7 witness: the calculator action, then "Final Answer: 4": run returned
\* "4" after two model calls and one executor call that returned.
C7_Witness ==
    /\ pc = "returned"
    /\ llm_calls = 2
    /\ result = Returned(<<"4">>)
    /\ Len(calls) = 1
    /\ calls[1].tool = "calculator"
    /\ calls[1].ran
    /\ ~calls[1].raised
    /\ messages[4].content = <<"Observation: ", "4.0">>

\* C8: when the model client call raises in iteration k (1-based), run ends
\* raising that error, the client has been called exactly k times, the
\* failing iteration appended no message and called no executor, and
\* nothing happens afterwards.
C8_TransportFatal ==
    result.kind = "llm"
    => /\ pc = "raised"
       /\ llm_calls = iteration + 1
       /\ Len(messages) = 2 + 2 * iteration
       /\ \A k \in 1..Len(calls) : calls[k].iteration < iteration
       /\ ~ENABLED Next

\* C8 witness: the client raised on its second call, after one dispatch.
C8_Witness ==
    /\ result.kind = "llm"
    /\ llm_calls = 2
    /\ Len(calls) = 1
    /\ Len(messages) = 4

\* C9: an iteration whose action names no registered tool calls no
\* executor, appends the reply and an observation that is an error naming
\* the missing tool and listing every registered tool name, and leaves run
\* in its loop.
C9_ToolNotFound ==
    [][ (/\ IterationStep
         /\ IsActionReply(response')
         /\ ActionMatch(response').val \notin ToolNames)
        => /\ calls' = calls
           /\ pc' = "loop"
           /\ result' = result
           /\ iteration' = iteration + 1
           /\ messages' = messages
                           \o << Message("assistant", response'),
                                 Message("user", ObservationContent(observation')) >>
           /\ observation'[1] = "Error: Tool '"
           /\ observation'[2] = ActionMatch(response').val
           /\ \A n \in ToolNames :
                \E j \in 4..Len(observation') : observation'[j] = n ]_vars

\* C9 witness: with two tools registered, the last iteration dispatched an
\* unknown tool name and the loop goes on.
C9_Witness ==
    /\ pc = "loop"
    /\ Len(tools) = 2
    /\ AfterOpenIteration
    /\ action_info.some
    /\ action_info.val.action \notin ToolNames
    /\ observation[1] = "Error: Tool '"
    /\ messages[Len(messages)].content = ObservationContent(observation)

\* What "run does not return and asks for the required format" means for
\* an iteration step.
AsksForFormat ==
    /\ pc' = "loop"
    /\ result' = result
    /\ iteration' = iteration + 1
    /\ iteration' < max_iterations
    /\ calls' = calls
    /\ messages' = messages
                    \o << Message("assistant", response'), Message("user", Nudge) >>

\* C10 (as claimed): a completion with neither marker, in an iteration that
\* is not the last allowed one, makes run append the reply and the
\* clarification instruction and go on to another model call.
C10_Original ==
    [][ (/\ IterationStep
         /\ Unrecognised(response')
         /\ iteration < max_iterations - 1)
        => AsksForFormat ]_vars

\* C10 (amended): a completion with neither marker that does not contain
\* the phrase "final answer" (in any letter case), in an iteration that is
\* not the last allowed one, makes run append the reply and the
\* clarification instruction and go on to another model call.
C10_ClarifyBeforeLast ==
    [][ (/\ IterationStep
         /\ Unrecognised(response')
         /\ ~HasFinalAnswerPhrase(response')
         /\ iteration < max_iterations - 1)
        => AsksForFormat ]_vars

\* C10 witness: the last iteration received unrecognisable text and the
\* transcript now ends with the reply and the clarification instruction.
C10_Witness ==
    /\ pc = "loop"
    /\ AfterOpenIteration
    /\ Unrecognised(response)
    /\ iteration < max_iterations
    /\ messages[Len(messages) - 1] = Message("assistant", response)
    /\ messages[Len(messages)] = Message("user", Nudge)

\* C11: when the completion of the last allowed iteration (index
\* max_iterations - 1) holds neither a Final Answer marker nor an Action
\* marker, run returns that completion verbatim, untrimmed, and that
\* iteration appends nothing and calls no executor.
C11_LastIterationRawReply ==
    [][ (/\ IterationStep
         /\ iteration = max_iterations - 1
         /\ Unrecognised(response'))
        => /\ pc' = "returned"
           /\ result' = Returned(response')
           /\ messages' = messages
           /\ calls' = calls ]_vars

\* C11 witness: the third of three iterations received a completion with
\* surrounding whitespace and no marker or "final answer" phrase, and run
\* returned it.
C11_Witness ==
    /\ max_iterations = 3
    /\ llm_calls = 3
    /\ pc = "returned"
    /\ Unrecognised(response)
    /\ ~HasFinalAnswerPhrase(response)
    /\ Strip(response) # response
    /\ result = Returned(response)

\* The number of Action markers in a completion.
ActionMarkerCount(text) == Cardinality({i \in 1..Len(text) : text[i] \in ActionMarkers})

\* This step is an iteration whose completion the parser classified as an
\* Action.
HaveActionStep == IterationStep /\ IsActionReply(response')

\* C12 (as claimed): every iteration classified as an Action makes exactly
\* one executor call.
C12_Original ==
    [][ HaveActionStep => Len(calls') = Len(calls) + 1 ]_vars

\* C12 (amended): every iteration classified as an Action makes at most
\* one executor call, also with several Action markers: exactly one, of
\* the tool the first Action marker names, when that name is registered,
\* and none when it is not; the call has ended (returned or raised) within
\* the iteration, so the calls of a run belong to pairwise different
\* iterations, in order.
C12_OneDispatchPerAction ==
    [][ HaveActionStep
        => /\ Len(calls') = Len(calls)
                             + (IF ActionMatch(response').val \in ToolNames THEN 1 ELSE 0)
           /\ SubSeq(calls', 1, Len(calls)) = calls
           /\ Len(calls') > Len(calls) =>
                /\ calls'[Len(calls')].tool = ActionMatch(response').val
                /\ calls'[Len(calls')].iteration = iteration
           /\ \A i, j \in 1..Len(calls') :
                i < j => calls'[i].iteration < calls'[j].iteration ]_vars

\* C12 witness: a completion with two Action markers was dispatched and the
\* run has made exactly one executor call, of the tool named first.
C12_Witness ==
    /\ AfterOpenIteration
    /\ ActionMarkerCount(response) = 2
    /\ llm_calls = 1
    /\ Len(calls) = 1
    /\ calls[1].tool = "get_current_time"
    /\ calls[1].ran

\* C13: every iteration classified as an Action appends exactly two
\* messages to the transcript and changes no earlier one: the assistant
\* message holding the completion verbatim, then the user message holding
\* "Observation: " followed by what _execute_tool returned.
C13_TranscriptGrowth ==
    [][ HaveActionStep
        => /\ Len(messages') = Len(messages) + 2
           /\ SubSeq(messages', 1, Len(messages)) = messages
           /\ messages'[Len(messages) + 1] = [role |-> "assistant", content |-> response']
           /\ messages'[Len(messages) + 2] =
                [role |-> "user", content |-> <<"Observation: ">> \o observation']
           /\ observation' = _execute_tool(tools, ActionMatch(response').val,
                                           ParseActionInput(response'), "returns").text
              \/ observation' = _execute_tool(tools, ActionMatch(response').val,
                                              ParseActionInput(response'), "raises").text
       ]_vars

\* C13 witness: the second Action iteration of a run left a transcript of
\* six messages ending with the completion and the observation 4.0.
C13_Witness ==
    /\ AfterOpenIteration
    /\ IsActionReply(response)
    /\ llm_calls = 2
    /\ Len(messages) = 6
    /\ messages[5] = [role |-> "assistant", content |-> response]
    /\ messages[6] = [role |-> "user", content |-> <<"Observation: ", "4.0">>]

\* C14: a run never makes more model calls than max_iterations, and once
\* max_iterations iterations have completed without returning (no final
\* answer, no raw-reply fallback), the only thing run does is return the
\* apology string, as a normal return value.
C14_IterationLimit ==
    /\ llm_calls <= max_iterations
    /\ [][ /\ llm_calls' <= max_iterations
           /\ (pc = "loop" /\ iteration >= max_iterations)
              => /\ pc' = "returned"
                 /\ result' = [kind |-> "return", val |-> Apology]
                 /\ llm_calls' = max_iterations ]_vars

\* C14 witness: three iterations of three dispatched or asked for the
\* format, and run returned the apology.
C14_Witness ==
    /\ max_iterations = 3
    /\ llm_calls = 3
    /\ iteration = 3
    /\ Len(messages) = 8
    /\ pc = "returned"
    /\ result.kind = "return"
    /\ result.val = Apology

\* C15: every run call, the first and the later ones on the same instance,
\* starts its transcript with exactly the system message and the user
\* message carrying its query; the first model call of a run receives those
\* two messages; and during a run the transcript holds the two and the two
\* messages of each iteration this run completed, so nothing of an earlier
\* run is in it.
C15_TranscriptPerRun ==
    /\ pc = "loop" => Len(messages) = 2 + 2 * iteration
    /\ [][ /\ (pc # "loop" /\ pc' = "loop")
              => /\ Len(messages') = 2
                 /\ messages'[1] = [role |-> "system", content |-> SystemMessage(tools')]
                 /\ messages'[2].role = "user"
                 /\ messages'[2].content \in Queries \cup LaterQueries
           /\ (pc' = "loop" /\ llm_calls' = 0) => Len(messages') = 2
           /\ (llm_calls = 0 /\ llm_calls' = 1)
              => /\ Len(messages) = 2
                 /\ messages[1].role = "system"
                 /\ messages[2].role = "user"
           /\ pc' = "loop" => Len(messages') = 2 + 2 * iteration'
           /\ (pc = "loop" /\ pc' = "loop")
              => SubSeq(messages', 1, Len(messages)) = messages ]_vars

\* C15 witness: a later run on the instance, started with another query
\* after an earlier run, has made its first model call and holds the two
\* seed messages and the two messages of its first iteration.
C15_Witness ==
    /\ pc = "loop"
    /\ messages[2].content \in LaterQueries
    /\ llm_calls = 1
    /\ Len(messages) = 4
    /\ messages[3] = [role |-> "assistant", content |-> response]

\* C16 (as claimed): a registration under a name the registry already
\* holds leaves the registry unchanged, so the names of the registered
\* tools are pairwise distinct.
C16_UniqueNames ==
    /\ \A i, j \in 1..Len(tools) : i # j => tools[i].name # tools[j].name
    /\ [][ \A i \in 1..Len(tools) :
             (Len(tools') > Len(tools) /\ tools'[Len(tools')].name = tools[i].name)
             => tools' = tools ]_vars

\* C17 (as claimed): a load_builtin_tool on one instance leaves the tools of
\* the other instance (what it renders and dispatches against) as they
\* were, whatever run and load_builtin_tool calls came before.
C17_RegistryIsolation ==
    [][ \A a \in Instances : \A b \in Instances \ {a} :
            (\E tool_name \in DOMAIN BUILTIN_TOOLS : Instance_load_builtin_tool(a, tool_name))
            => ToolsOf(b)' = ToolsOf(b) ]_vars

\* C18 (as claimed): no step of an instance removes or replaces a tool it
\* has registered: every tool of self.tools is still in self.tools after
\* the step.
C18_Additive ==
    [][ \A i \in 1..Len(tools) : \E j \in 1..Len(tools') : tools'[j] = tools[i] ]_vars

\* A descriptor was produced by the last get_tool_description call.
HasDescriptor == tool_desc.by # "none" /\ tool_desc.raised = ""

\* The names listed in parameters.required of the descriptor.
RequiredNames ==
    {tool_desc.val.parameters.required[k] :
        k \in 1..Len(tool_desc.val.parameters.required)}

\* The names of the parameters func declares without a default value.
DeclaredWithoutDefault ==
    {<<func.params[i].name>> : i \in {j \in 1..Len(func.params) : ~func.params[j].has_default}}

\* C19: in every descriptor either get_tool_description produces, every
\* name of parameters.required is a key of parameters.properties.
C19_RequiredInProperties ==
    HasDescriptor => RequiredNames \subseteq DOMAIN tool_desc.val.parameters.properties

\* C19 witness: get_tool_description of src/tools.py described a callable
\* with the docstring of create_summary and listed three required names.
C19_Witness ==
    /\ HasDescriptor
    /\ tool_desc.by = "tools"
    /\ func.doc = Some(DocSummary)
    /\ Len(tool_desc.val.parameters.required) = 3
    /\ <<"max_words">> \in DOMAIN tool_desc.val.parameters.properties

\* C20 (as claimed): in every descriptor, the names of parameters.required
\* are exactly the parameters the callable declares without a default.
C20_RequiredIffNoDefault ==
    HasDescriptor => RequiredNames = DeclaredWithoutDefault

\* The callable has documentation: a docstring with some text in it.
Documented(f) ==
    /\ f.doc.some
    /\ \E i \in 1..Len(f.doc.val) :
            \E k \in 1..Len(f.doc.val[i]) : f.doc.val[i][k] \notin Whitespace

\* C21: a call of get_tool_description (src/tools.py) returns a descriptor
\* of the callable when the callable is documented and marked by
\* register_tool, and otherwise raises an error and produces no
\* descriptor; the call leaves the callable as it was, so an earlier
\* failure does not change what a later call gives.
C21_DescribeOrFail ==
    [][ call_get_tool_description
        => /\ func' = func
           /\ tool_desc'.by = "tools"
           /\ IF func._is_tool /\ Documented(func)
              THEN /\ tool_desc'.raised = ""
                   /\ tool_desc'.val.name = func.name
              ELSE /\ tool_desc'.raised \in {"TypeError", "ValueError"}
                   /\ tool_desc'.val = <<>> ]_vars

\* C21 witness: a call failed on a documented callable that was not marked;
\* the callable has been registered since, and the failed result is still
\* the last one.
C21_Witness ==
    /\ tool_desc.by = "tools"
    /\ tool_desc.raised = "TypeError"
    /\ func._is_tool
    /\ Documented(func)
    /\ Len(func.params) = 2

\* Two results of _parse_action are structurally equal: the same variant,
\* and for actions the same tool name, input and thought.
SameIntent(a, b) ==
    /\ a.some = b.some
    /\ a.some => /\ a.val.action = b.val.action
                 /\ a.val.thought = b.val.thought
                 /\ PyEq(a.val.action_input, b.val.action_input)

\* The completion of the completed iteration with index it, as the
\* transcript holds it, and the user message that followed it.
ReplyOf(it) == messages[3 + 2 * it].content

FollowUpOf(it) == messages[4 + 2 * it]

\* The completed iterations i and j of this run treated their completions
\* alike: both dispatched or both asked for the format, and the executor
\* calls they made name the same tool with the same input.
SameTreatment(i, j) ==
    /\ IsObservation(FollowUpOf(i)) = IsObservation(FollowUpOf(j))
    /\ (CallsOf(i) = {}) = (CallsOf(j) = {})
    /\ \A k \in CallsOf(i) : \A l \in CallsOf(j) :
            /\ calls[k].tool = calls[l].tool
            /\ PyEq(calls[k].tool_input, calls[l].tool_input)

DeclaredNames ==
    {<<func.params[i].name>> : i \in {j \in 1..Len(func.params) : func.params[j].name # "self"}}

\* C23 (as claimed): in every descriptor get_tool_description of
\* src/tools.py produces, the keys of parameters.properties are exactly the
\* declared parameter names, self excluded.
C23_PropertiesAreParameters ==
    (HasDescriptor /\ tool_desc.by = "tools")
    => DOMAIN tool_desc.val.parameters.properties = DeclaredNames

\* The schema type the fixed mapping gives an annotation.
MappedType(annotation) ==
    CASE annotation = "int" -> "integer"
      [] annotation = "float" -> "number"
      [] annotation = "bool" -> "boolean"
      [] annotation = "list" -> "array"
      [] annotation = "dict" -> "object"
      [] OTHER -> "string"

\* C24 (as claimed): in every descriptor, the schema type of the entry of
\* each declared parameter is the one the fixed mapping gives its
\* annotation, string without an annotation.
C24_TypeMapping ==
    HasDescriptor
    => \A i \in 1..Len(func.params) :
          <<func.params[i].name>> \in DOMAIN tool_desc.val.parameters.properties
          => tool_desc.val.parameters.properties[<<func.params[i].name>>].type
                = MappedType(func.params[i].annotation)

\* C25 (as claimed): the action_input of every Action intent the parser
\* produced is a mapping, never a list, a string or a number.
C25_InputIsMapping ==
    action_info.some => action_info.val.action_input.t = "dict"

\* The first Action marker that a tool name follows.
FirstActionAt(text) ==
    Min({i \in 1..Len(text) :
            /\ text[i] \in ActionMarkers
            /\ SkipWs(text, i + 1) <= Len(text)
            /\ LeadingWord(text[SkipWs(text, i + 1)]) # ""})

\* The Action Input marker that immediately follows the tool name of the
\* first Action marker (0 when something else, or nothing, follows it).
AdjacentInputAt(text) ==
    LET p == SkipWs(text, SkipWs(text, FirstActionAt(text) + 1) + 1)
    IN  IF p <= Len(text) /\ text[p] \in InputMarkers THEN p ELSE 0

\* The first Action block: from the first Action marker up to the next
\* Action marker, or to the end of the completion.
FirstActionBlock(text) ==
    LET a == FirstActionAt(text)
        later == {j \in (a + 1)..Len(text) : text[j] \in ActionMarkers}
    IN  SubSeq(text, a, IF later = {} THEN Len(text) ELSE Min(later) - 1)

\* C26 (as claimed): after an iteration that parsed an action from a
\* completion without a Final Answer marker, the intent names the word after
\* the first Action marker and its input is the one of the Action Input
\* marker adjacent to that Action marker: the empty mapping when the first
\* Action has no adjacent Action Input, and never the input of another block.
C26_InputOfSameBlock ==
    (/\ AfterOpenIteration
     /\ action_info.some
     /\ ~HasFinalMarker(response))
    => /\ action_info.val.action
            = LeadingWord(response[SkipWs(response, FirstActionAt(response) + 1)])
       /\ IF AdjacentInputAt(response) = 0
          THEN /\ action_info.val.action_input.t = "dict"
               /\ DOMAIN action_info.val.action_input.v = {}
          ELSE PyEq(action_info.val.action_input,
                    ParseActionInput(FirstActionBlock(response)))

\* The completion holds a Final Answer marker followed by whitespace only,
\* and no Action marker.
EmptyFinalAnswer(text) ==
    /\ HasFinalMarker(text)
    /\ AfterFinalMarker(text) = <<>>
    /\ ~HasActionMarker(text)

\* C27: an iteration, whatever its index, whose completion holds a Final
\* Answer marker followed by whitespace only and no Action marker ends the
\* run by returning that completion verbatim: the answer is not empty, the
\* transcript gets no clarification message, and no model call follows.
C27_EmptyFinalReturnsRaw ==
    [][ /\ (IterationStep /\ EmptyFinalAnswer(response'))
           => /\ pc' = "returned"
              /\ result' = Returned(response')
              /\ result'.val # <<>>
              /\ messages' = messages
              /\ calls' = calls
        /\ (pc = "returned" /\ EmptyFinalAnswer(response))
           => llm_calls' = llm_calls ]_vars

\* C27 witness: the first of three iterations received "Thought: done\nFinal
\* Answer: " and run returned it whole after one model call.
C27_Witness ==
    /\ max_iterations = 3
    /\ llm_calls = 1
    /\ iteration = 0
    /\ EmptyFinalAnswer(response)
    /\ pc = "returned"
    /\ result = Returned(response)
    /\ Len(messages) = 2

\* The last completion was classified as an Action and dispatched: the
\* transcript ends with it and with the observation.
LastReplyDispatched ==
    /\ IsActionReply(response)
    /\ Len(messages) >= 4
    /\ messages[Len(messages) - 1] = Message("assistant", response)
    /\ IsObservation(messages[Len(messages)])

\* C28: run has returned the apology only when max_iterations <= 0 and no
\* model call was made, or when exactly max_iterations model calls were made
\* and the completion of the last allowed iteration was classified as an
\* Action and dispatched; and an iteration with index max_iterations - 1
\* whose completion is neither a final answer nor an action ends the run
\* with something else than the apology.
C28_ApologyOnlyAfterAction ==
    /\ [](result = Returned(Apology)
            => \/ max_iterations <= 0 /\ llm_calls = 0
               \/ /\ max_iterations > 0
                  /\ llm_calls = max_iterations
                  /\ LastReplyDispatched)
    /\ [][ (/\ IterationStep
            /\ iteration = max_iterations - 1
            /\ ~Truthy(_check_final_answer(response'))
            /\ ~IsActionReply(response'))
           => /\ pc' = "returned"
              /\ result' # Returned(Apology) ]_vars

\* C28 witness: two iterations of two were actions, the second one was
\* dispatched, and run returned the apology.
C28_Witness ==
    /\ max_iterations = 2
    /\ llm_calls = 2
    /\ pc = "returned"
    /\ result = Returned(Apology)
    /\ LastReplyDispatched
    /\ Len(messages) = 6

\* The transcript is the system message, the user message carrying the
\* query, then (assistant, user) pairs.
TranscriptShape ==
    /\ Len(messages) >= 2
    /\ Len(messages) % 2 = 0
    /\ messages[1].role = "system"
    /\ messages[2].role = "user"
    /\ messages[2].content \in Queries
    /\ \A k \in 1..((Len(messages) - 2) \div 2) :
          /\ messages[2 * k + 1].role = "assistant"
          /\ messages[2 * k + 2].role = "user"

\* C29: from the start of a run on, the transcript is one system message,
\* one user message carrying the query, then zero or more (assistant, user)
\* pairs; the j-th model call of a run is made with a transcript of exactly
\* 2j messages; and no step of a run changes, reorders or removes a message
\* the transcript already holds.
C29_TranscriptShape ==
    /\ [](pc # "init" => TranscriptShape)
    /\ [][ /\ llm_calls' = llm_calls + 1 => Len(messages) = 2 * llm_calls'
           /\ pc # "init"
              => /\ Len(messages') >= Len(messages)
                 /\ SubSeq(messages', 1, Len(messages)) = messages ]_vars

\* C29 witness: the third model call of a run was made with six messages,
\* and its iteration left a transcript of eight, with a clarification
\* request and an observation among the user messages.
C29_Witness ==
    /\ pc = "loop"
    /\ llm_calls = 3
    /\ Len(messages) = 8
    /\ TranscriptShape
    /\ \E k \in 3..8 : messages[k] = Message("user", Nudge)
    /\ \E k \in 3..8 : IsObservation(messages[k])

=============================================================================
